---- MODULE Spec2Model ----
(***************************************************************************)
(* Real-time notification core of the Verline front end:                   *)
(*   - WebSocketService (src/src/services/websocket.ts): the transport and *)
(*     its event dispatcher;                                               *)
(*   - NotificationsProvider (src/src/contexts/NotificationsContext.tsx):  *)
(*     the notification store;                                             *)
(*   - the browser's WebSocket objects, its timer table, and the server    *)
(*     behind the socket and the REST API, as the environment.             *)
(***************************************************************************)
EXTENDS Integers, Sequences, FiniteSets, TLC

\* ------------------------------------------------------------------ bounds
MaxSockets == 2
MaxTimers == 2
MaxUsers == 2
MaxTokens == 1
MaxNotifs == 2
MaxWire == 1
MaxCalls == 2
MaxRefresh == 1
MaxListeners == 2
MaxRegs == 3

\* --------------------------------------------------------------- constants
NULL == 0
ManualClose == 1000
ReconnectDelay == 3

SocketIds == 1..MaxSockets
TimerIds == 1..MaxTimers
UserIds == 1..MaxUsers
Tokens == 1..MaxTokens
NotifIds == 1..MaxNotifs
CallIds == 1..MaxCalls

\* Close codes a close event can carry: 1000 normal, 1001 going away (both
\* from a close frame), 1006 abnormal (no close frame: the connection failed).
CleanCodes == {ManualClose, 1001}
AbnormalCode == ManualClose + 6

EventNames ==
  {"notification", "unread_count", "notifications_list", "connect", "disconnect", "error"}

VARIABLES
  ws,              \* WebSocketService.ws: a socket id or NULL
  reconnectTimer,  \* WebSocketService.reconnectTimer: a timer handle or NULL
  listeners,       \* WebSocketService.listeners: event name -> sequence of handlers
  userId,          \* WebSocketService.userId or NULL
  token,           \* WebSocketService.token or NULL
  isConnecting,    \* WebSocketService.isConnecting
  rs,              \* readyState of every WebSocket object the service created
  established,     \* the sockets whose connection was established (open event fired)
  timers,          \* the event loop's timer table: handle -> seconds left, -1 when not pending
  notifications,   \* NotificationsProvider state: the list
  unreadCount,     \* NotificationsProvider state: the unread count
  isConnected,     \* NotificationsProvider state: the connected flag
  srv,             \* the server's notification table: id -> "none" | "unread" | "read"
  wsIn,            \* frames the server has sent on the open socket, not yet delivered
  wsOut,           \* frames the client has transmitted, not yet received by the server
  calls,           \* REST calls of the store that are in flight
  auth,            \* AuthProvider state (user, token) and the state of the provider's effect
  last             \* what the last step did (operation, socket, frames transmitted, events emitted)

tvars == <<ws, reconnectTimer, userId, token, isConnecting, rs, established, timers>>
svars == <<notifications, unreadCount, isConnected>>
evars == <<srv, wsIn, wsOut, calls>>
lvars == <<listeners, auth>>
vars == <<ws, reconnectTimer, listeners, userId, token, isConnecting, rs, established, timers,
          notifications, unreadCount, isConnected, srv, wsIn, wsOut, calls, auth, last>>

\* ------------------------------------------------------------ the store's
\* handlers, as functions of the store's state (React state setters applied in
\* the order the handlers call them), with the trace of the running task: the
\* callbacks the dispatcher has invoked (log) and whether an exception is
\* propagating (thrown)
StoreRec ==
  [notifications |-> notifications, unreadCount |-> unreadCount, isConnected |-> isConnected,
   listeners |-> listeners, log |-> <<>>, thrown |-> FALSE]

handleConnect(st, data) == [st EXCEPT !.isConnected = TRUE]

handleDisconnect(st, data) == [st EXCEPT !.isConnected = FALSE]

\* handleNotification putting the item at the end of the list
handleNotificationAppends(st, data) ==
  [st EXCEPT !.notifications = st.notifications \o <<data>>,
             !.unreadCount = st.unreadCount + 1]

handleNotification(st, data) ==
  [st EXCEPT !.notifications = <<data>> \o st.notifications,
             !.unreadCount = st.unreadCount + 1]

\* handleUnreadCount that never lowers the count it finds
handleUnreadCountMerging(st, data) ==
  [st EXCEPT !.unreadCount = IF data.count > @ THEN data.count ELSE @]

handleUnreadCount(st, data) == [st EXCEPT !.unreadCount = data.count]

\* handleNotificationsList recomputing the count from the snapshot
handleNotificationsListRecount(st, data) ==
  [st EXCEPT !.notifications = data,
             !.unreadCount = Cardinality({i \in DOMAIN data : ~data[i].is_read})]

handleNotificationsList(st, data) == [st EXCEPT !.notifications = data]

handleError(st, data) == [st EXCEPT !.isConnected = FALSE]

\* WebSocketService.on
on(ls, event, h) ==
  IF event \in DOMAIN ls THEN [ls EXCEPT ![event] = Append(@, h)] ELSE ls

\* Array.prototype.indexOf: the first position of h, 0 when absent
indexOf(hs, h) ==
  IF \E i \in DOMAIN hs : hs[i] = h
  THEN CHOOSE i \in DOMAIN hs : hs[i] = h /\ \A j \in DOMAIN hs : hs[j] = h => i <= j
  ELSE 0

\* Array.prototype.splice(i, 1)
splice(hs, i) == SubSeq(hs, 1, i - 1) \o SubSeq(hs, i + 1, Len(hs))

\* WebSocketService.off
off(ls, event, h) ==
  IF event \in DOMAIN ls /\ indexOf(ls[event], h) > 0
  THEN [ls EXCEPT ![event] = splice(@, indexOf(@, h))]
  ELSE ls

\* The event the callbacks "once" and "adder" of a caller are written for
SelfEvent == "unread_count"

\* A registered callback is [fn |-> the handler's name, gen |-> the effect run
\* that created the closure]. Callbacks of other callers: "once" removes
\* itself with off(SelfEvent, once) when it is called, "adder" registers a
\* "probe" with on(SelfEvent, probe); `st.listeners` is the service's listener
\* map while the callbacks run.
Invoke(h, st, data) ==
  CASE h.fn = "handleConnect" -> handleConnect(st, data)
    [] h.fn = "handleDisconnect" -> handleDisconnect(st, data)
    [] h.fn = "handleNotification" -> handleNotification(st, data)
    [] h.fn = "handleUnreadCount" -> handleUnreadCount(st, data)
    [] h.fn = "handleNotificationsList" -> handleNotificationsList(st, data)
    [] h.fn = "handleError" -> handleError(st, data)
    [] h.fn = "once" -> [st EXCEPT !.listeners = off(@, SelfEvent, h)]
    [] h.fn = "adder" -> [st EXCEPT !.listeners = on(@, SelfEvent, [fn |-> "probe", gen |-> NULL])]
    [] OTHER -> st

\* Listeners that are not the store's: "thrower" throws when it is called,
\* any other returns.
Throws(h) == h.fn = "thrower"

\* callback(data) without the try/catch around it: the exception propagates
tryCallNoCatch(h, st, data) ==
  [Invoke(h, st, data) EXCEPT !.log = Append(@, h), !.thrown = Throws(h)]

\* try { callback(data) } catch (error) { console.error(...) }
tryCall(h, st, data) ==
  [Invoke(h, st, data) EXCEPT !.log = Append(@, h)]

\* Array.prototype.forEach on the array of the event: the length is read once,
\* when the loop starts; position k is read from the array as it is when the
\* loop gets there and is passed over when the array has become shorter; a
\* propagating exception ends the loop
RECURSIVE forEach(_, _, _, _, _)
forEach(event, k, len, st, data) ==
  IF k > len \/ st.thrown THEN st
  ELSE IF k > Len(st.listeners[event]) THEN forEach(event, k + 1, len, st, data)
  ELSE forEach(event, k + 1, len, tryCall(st.listeners[event][k], st, data), data)

\* WebSocketService.emit: the listeners of the event, in registration order;
\* an event name without an entry in the map has no listeners.
emit(st, event, data) ==
  IF event \in DOMAIN st.listeners
  THEN forEach(event, 1, Len(st.listeners[event]), st, data)
  ELSE st

\* ------------------------------------------------------------- the timer
\* table and the service's two timer helpers, as functions of
\* [timers, reconnectTimer]
FreeTimer(tm) == CHOOSE t \in TimerIds : tm[t] < 0 /\ \A u \in TimerIds : tm[u] < 0 => t <= u

clearReconnectTimer(tm, handle) ==
  IF handle # NULL
  THEN [timers |-> [tm EXCEPT ![handle] = -1], reconnectTimer |-> NULL]
  ELSE [timers |-> tm, reconnectTimer |-> handle]

\* scheduleReconnect without its setTimeout() call
scheduleReconnectNoTimer(tm, handle) == clearReconnectTimer(tm, handle)

\* scheduleReconnect without its clearReconnectTimer() call
scheduleReconnectKeepsOld(tm, handle) ==
  LET t == FreeTimer(tm)
  IN [timers |-> [tm EXCEPT ![t] = ReconnectDelay], reconnectTimer |-> t]

scheduleReconnect(tm, handle) ==
  LET c == clearReconnectTimer(tm, handle)
      t == FreeTimer(c.timers)
  IN [timers |-> [c.timers EXCEPT ![t] = ReconnectDelay], reconnectTimer |-> t]

\* setTimeout needs a free slot of the (bounded) timer table
CanSchedule == \E t \in TimerIds : clearReconnectTimer(timers, reconnectTimer).timers[t] < 0

\* ---------------------------------------------------------------- sockets
IsOpen(sock, r) == sock # NULL /\ r[sock] = "OPEN"

Live(s) == rs[s] \in {"CONNECTING", "OPEN"}

\* A WebSocket object whose close event has been delivered is garbage: its id
\* is free for the next `new WebSocket`.
FreeSocket == CHOOSE s \in SocketIds : rs[s] = "CLOSED" /\ \A u \in SocketIds : rs[u] = "CLOSED" => s <= u

\* send() without the readyState test
sendAnyState(sock, r, msg) == IF sock # NULL THEN <<[sock |-> sock, type |-> msg]>> ELSE <<>>

\* WebSocketService.send: the frames it puts on the wire, on a given
\* readyState map
send(sock, r, msg) == IF IsOpen(sock, r) THEN <<[sock |-> sock, type |-> msg]>> ELSE <<>>

ConnectionState ==
  IF isConnecting THEN "connecting" ELSE IF IsOpen(ws, rs) THEN "connected" ELSE "disconnected"

SetStore(st) ==
  /\ notifications' = st.notifications
  /\ unreadCount' = st.unreadCount
  /\ isConnected' = st.isConnected

\* The listener map as the callbacks of an emit left it
SetListeners(st) == listeners' = st.listeners

PendingTimers == {t \in TimerIds : timers[t] >= 0}

\* The record of a step: the operation, its argument, the socket it ran on, the
\* close code, the socket it created, the frames it transmitted, the events it
\* emitted, the state it started from, and `plain`: the store has so far seen
\* only notification pushes and mark-read operations whose REST calls succeeded
\* (no unread_count or notifications_list event, no REST refresh response);
\* a close also records `afterTimer`: the step before it was an attempt of
\* the reconnect timer.
Overrides(op, emitted) ==
  \/ op \in {"getAll:done", "getUnreadCount:done"}
  \/ op \in {"markAsRead:fail", "markAllAsRead:fail", "getAll:fail", "getUnreadCount:fail"}
  \/ \E i \in DOMAIN emitted : emitted[i] \in {"unread_count", "notifications_list"}

Step(op, arg, sock, code, created, tx, emitted) ==
  [op |-> op, arg |-> arg, sock |-> sock, code |-> code, created |-> created,
   tx |-> tx, emitted |-> emitted, invoked |-> <<>>, uncaught |-> FALSE,
   plain |-> IF op = "init" THEN TRUE ELSE last.plain /\ ~Overrides(op, emitted),
   afterTimer |-> op \in {"close", "fail"} /\ last.op = "timer",
   pre |-> [state |-> ConnectionState, timer |-> PendingTimers # {},
            userId |-> userId, token |-> token, unreadCount |-> unreadCount,
            rs |-> IF sock = NULL THEN "NONE" ELSE rs[sock]]]

NoArg == [userId |-> NULL, token |-> NULL]

\* The record of a step that ran emit: with the callbacks emit invoked
Traced(l, st) == [l EXCEPT !.invoked = st.log, !.uncaught = st.thrown]

\* -------------------------------------------------------------- connect()
\* The guard of connect() without the in-flight flag
connectGuardOpenOnly == IsOpen(ws, rs)

connectGuard == isConnecting \/ IsOpen(ws, rs)

\* connect(p, c) whose catch block leaves the in-flight flag set
connectThrowStaysConnecting(p, c, throws, op) ==
  IF connectGuard
  THEN /\ UNCHANGED <<ws, userId, token, isConnecting, rs, established, svars>>
       /\ last' = Step(op, [userId |-> p, token |-> c], NULL, 0, NULL, <<>>, <<>>)
  ELSE /\ userId' = p
       /\ token' = c
       /\ IF throws
          THEN /\ isConnecting' = TRUE
               /\ UNCHANGED <<ws, rs, established>>
               /\ SetStore(emit(StoreRec, "error", NULL))
               /\ last' = Traced(Step(op, [userId |-> p, token |-> c], NULL, 0, NULL, <<>>, <<"error">>),
                                 emit(StoreRec, "error", NULL))
          ELSE /\ \E s \in SocketIds : rs[s] = "CLOSED"
               /\ isConnecting' = TRUE
               /\ ws' = FreeSocket
               /\ rs' = [rs EXCEPT ![FreeSocket] = "CONNECTING"]
               /\ established' = established \ {FreeSocket}
               /\ UNCHANGED svars
               /\ last' = Step(op, [userId |-> p, token |-> c], NULL, 0, FreeSocket, <<>>, <<>>)

\* connect(p, c); `throws`: the WebSocket constructor throws. `op` names the
\* caller ("connect": the application; "timer": the reconnect timer).
connect(p, c, throws, op) ==
  IF connectGuard
  THEN /\ UNCHANGED <<ws, userId, token, isConnecting, rs, established, svars>>
       /\ last' = Step(op, [userId |-> p, token |-> c], NULL, 0, NULL, <<>>, <<>>)
  ELSE /\ userId' = p
       /\ token' = c
       /\ IF throws
          THEN /\ isConnecting' = FALSE
               /\ UNCHANGED <<ws, rs, established>>
               /\ SetStore(emit(StoreRec, "error", NULL))
               /\ last' = Traced(Step(op, [userId |-> p, token |-> c], NULL, 0, NULL, <<>>, <<"error">>),
                                 emit(StoreRec, "error", NULL))
          ELSE /\ \E s \in SocketIds : rs[s] = "CLOSED"
               /\ isConnecting' = TRUE
               /\ ws' = FreeSocket
               /\ rs' = [rs EXCEPT ![FreeSocket] = "CONNECTING"]
               /\ established' = established \ {FreeSocket}
               /\ UNCHANGED svars
               /\ last' = Step(op, [userId |-> p, token |-> c], NULL, 0, FreeSocket, <<>>, <<>>)

\* The listener map after connect(): as the error listeners left it when the
\* constructor threw
connectListeners(throws) ==
  IF ~connectGuard /\ throws THEN emit(StoreRec, "error", NULL).listeners ELSE listeners

Connect(p, c, throws) ==
  /\ connect(p, c, throws, "connect")
  /\ listeners' = connectListeners(throws)
  /\ UNCHANGED <<reconnectTimer, timers, auth, evars>>

\* ----------------------------------------------------------- disconnect()
\* disconnect() without its clearReconnectTimer() call
disconnectKeepsTimer ==
  /\ UNCHANGED <<timers, reconnectTimer>>
  /\ userId' = NULL
  /\ token' = NULL
  /\ IF ws # NULL
     THEN /\ rs' = [rs EXCEPT ![ws] = IF @ \in {"CONNECTING", "OPEN"} THEN "CLOSING" ELSE @]
          /\ ws' = NULL
     ELSE UNCHANGED <<ws, rs>>
  /\ UNCHANGED <<isConnecting, established>>

disconnect ==
  LET c == clearReconnectTimer(timers, reconnectTimer)
  IN /\ timers' = c.timers
     /\ reconnectTimer' = c.reconnectTimer
     /\ userId' = NULL
     /\ token' = NULL
     /\ IF ws # NULL
        THEN /\ rs' = [rs EXCEPT ![ws] = IF @ \in {"CONNECTING", "OPEN"} THEN "CLOSING" ELSE @]
             /\ ws' = NULL
        ELSE UNCHANGED <<ws, rs>>
     /\ UNCHANGED <<isConnecting, established>>

Disconnect ==
  /\ disconnect
  /\ last' = Step("disconnect", NoArg, ws, 0, NULL, <<>>, <<>>)
  /\ UNCHANGED <<lvars, svars, evars>>

\* ----------------------------------------------------------------- send()
Send(msg) ==
  /\ last' = Step("send", NoArg, ws, 0, NULL, send(ws, rs, msg), <<>>)
  /\ UNCHANGED <<tvars, lvars, svars, evars>>

\* ------------------------------------------------------- socket callbacks
\* Callbacks of the browser run to completion, one at a time: none starts
\* between the cleanup and the body of the provider's effect.
TaskIdle == auth.pc = "idle"

\* ws.onopen without its clearReconnectTimer() call
onopenKeepsTimer(s) ==
  LET r == [rs EXCEPT ![s] = "OPEN"]
  IN /\ rs' = r
     /\ established' = established \cup {s}
     /\ isConnecting' = FALSE
     /\ UNCHANGED <<timers, reconnectTimer>>
     /\ SetStore(emit(StoreRec, "connect", NULL))
     /\ SetListeners(emit(StoreRec, "connect", NULL))
     /\ last' = Traced(Step("open", NoArg, s, 0, NULL, send(ws, r, "get_notifications"), <<"connect">>),
                       emit(StoreRec, "connect", NULL))
     /\ UNCHANGED <<ws, userId, token>>

\* ws.onopen of socket s
onopen(s) ==
  LET c == clearReconnectTimer(timers, reconnectTimer)
      r == [rs EXCEPT ![s] = "OPEN"]
  IN /\ rs' = r
     /\ established' = established \cup {s}
     /\ isConnecting' = FALSE
     /\ timers' = c.timers
     /\ reconnectTimer' = c.reconnectTimer
     /\ SetStore(emit(StoreRec, "connect", NULL))
     /\ SetListeners(emit(StoreRec, "connect", NULL))
     /\ last' = Traced(Step("open", NoArg, s, 0, NULL, send(ws, r, "get_notifications"), <<"connect">>),
                       emit(StoreRec, "connect", NULL))
     /\ UNCHANGED <<ws, userId, token>>

WsOpen(s) ==
  /\ TaskIdle
  /\ rs[s] = "CONNECTING"
  /\ onopen(s)
  /\ UNCHANGED <<auth, evars>>

\* ws.onclose without the test of event.code
oncloseAnyCode(s, code, st, pre, op) ==
  LET sched == userId # NULL /\ token # NULL
      c == IF sched THEN scheduleReconnect(timers, reconnectTimer)
           ELSE [timers |-> timers, reconnectTimer |-> reconnectTimer]
  IN /\ sched => CanSchedule
     /\ rs' = [rs EXCEPT ![s] = "CLOSED"]
     /\ established' = established \ {s}
     /\ isConnecting' = FALSE
     /\ ws' = NULL
     /\ SetStore(emit(st, "disconnect", [code |-> code]))
     /\ SetListeners(emit(st, "disconnect", [code |-> code]))
     /\ timers' = c.timers
     /\ reconnectTimer' = c.reconnectTimer
     /\ last' = Traced(Step(op, NoArg, s, code, NULL, <<>>, pre \o <<"disconnect">>),
                       emit(st, "disconnect", [code |-> code]))
     /\ UNCHANGED <<userId, token>>

\* ws.onclose of socket s with event.code = code; `pre` are the events the
\* same task emitted before it (the error event of a failed connection)
onclose(s, code, st, pre, op) ==
  LET sched == code # ManualClose /\ userId # NULL /\ token # NULL
      c == IF sched THEN scheduleReconnect(timers, reconnectTimer)
           ELSE [timers |-> timers, reconnectTimer |-> reconnectTimer]
  IN /\ sched => CanSchedule
     /\ rs' = [rs EXCEPT ![s] = "CLOSED"]
     /\ established' = established \ {s}
     /\ isConnecting' = FALSE
     /\ ws' = NULL
     /\ SetStore(emit(st, "disconnect", [code |-> code]))
     /\ SetListeners(emit(st, "disconnect", [code |-> code]))
     /\ timers' = c.timers
     /\ reconnectTimer' = c.reconnectTimer
     /\ last' = Traced(Step(op, NoArg, s, code, NULL, <<>>, pre \o <<"disconnect">>),
                       emit(st, "disconnect", [code |-> code]))
     /\ UNCHANGED <<userId, token>>

\* The closing handshake of an established connection completes: the server's
\* close frame carried `code`.
WsClose(s, code) ==
  /\ TaskIdle
  /\ rs[s] \in {"OPEN", "CLOSING"}
  /\ s \in established
  /\ onclose(s, code, StoreRec, <<>>, "close")
  /\ UNCHANGED <<auth, evars>>

\* ws.onerror
onerror(st) == emit(st, "error", NULL)

\* The connection fails (handshake refused, network lost): the browser fires
\* the error event and then the close event, code 1006, in one task.
WsFail(s) ==
  /\ TaskIdle
  /\ rs[s] \in {"CONNECTING", "OPEN", "CLOSING"}
  /\ onclose(s, AbnormalCode, onerror(StoreRec), <<"error">>, "fail")
  /\ UNCHANGED <<auth, evars>>

\* ws.onmessage without the try/catch around JSON.parse and emit: the
\* exception of an undecodable frame leaves the callback
onmessageNoCatch(s, raw) ==
  /\ IF raw.ok
     THEN /\ SetStore(emit(StoreRec, raw.type, raw.data))
          /\ SetListeners(emit(StoreRec, raw.type, raw.data))
          /\ last' = Traced(Step("message", NoArg, s, 0, NULL, <<>>, <<raw.type>>),
                            emit(StoreRec, raw.type, raw.data))
     ELSE /\ UNCHANGED <<svars, listeners>>
          /\ last' = [Step("message", NoArg, s, 0, NULL, <<>>, <<>>) EXCEPT !.uncaught = TRUE]
  /\ UNCHANGED <<tvars, auth>>

\* ws.onmessage of socket s with event.data = raw. A raw frame is either
\* [ok |-> FALSE] (JSON.parse throws) or [ok |-> TRUE, type, data].
onmessage(s, raw) ==
  /\ IF raw.ok
     THEN /\ SetStore(emit(StoreRec, raw.type, raw.data))
          /\ SetListeners(emit(StoreRec, raw.type, raw.data))
          /\ last' = Traced(Step("message", NoArg, s, 0, NULL, <<>>, <<raw.type>>),
                            emit(StoreRec, raw.type, raw.data))
     ELSE /\ UNCHANGED <<svars, listeners>>
          /\ last' = Step("message", NoArg, s, 0, NULL, <<>>, <<>>)
  /\ UNCHANGED <<tvars, auth>>

\* Frames of any peer: undecodable, a well-formed unread_count, and frames whose
\* type field names one of the service's own lifecycle events.
RawFrames ==
  {[ok |-> ok, type |-> ty, data |-> [count |-> 0]] :
     ok \in BOOLEAN, ty \in {"unread_count", "connect", "disconnect", "error"}}

WsMessage(s, raw) ==
  /\ TaskIdle
  /\ rs[s] \in {"OPEN", "CLOSING"}
  /\ s \in established
  /\ onmessage(s, raw)
  /\ UNCHANGED evars

\* ------------------------------------------------------ the reconnect timer
\* One second passes: no pending timer is due yet (a due timer fires first
\* or is cancelled).
Tick ==
  /\ TaskIdle
  /\ \E t \in TimerIds : timers[t] > 0
  /\ \A t \in TimerIds : timers[t] # 0
  /\ timers' = [t \in TimerIds |-> IF timers[t] > 0 THEN timers[t] - 1 ELSE timers[t]]
  /\ last' = Step("tick", NoArg, NULL, 0, NULL, <<>>, <<>>)
  /\ UNCHANGED <<ws, reconnectTimer, userId, token, isConnecting, rs, established, lvars, svars, evars>>

\* The callback scheduleReconnect passed to setTimeout
TimerFire(t) ==
  /\ TaskIdle
  /\ timers[t] = 0
  /\ timers' = [timers EXCEPT ![t] = -1]
  /\ IF userId # NULL /\ token # NULL
     THEN \E throws \in BOOLEAN : /\ connect(userId, token, throws, "timer")
                                   /\ listeners' = connectListeners(throws)
     ELSE /\ UNCHANGED <<ws, userId, token, isConnecting, rs, established, svars, listeners>>
          /\ last' = Step("timer-idle", NoArg, NULL, 0, NULL, <<>>, <<>>)
  /\ UNCHANGED <<reconnectTimer, auth, evars>>

\* ------------------------------------------------------------------- Init
Idle == [op |-> "idle", id |-> NULL, st |-> "idle", data |-> <<>>]

NoListeners == [e \in EventNames |-> <<>>]

\* AuthProvider's user and token are null; the provider's effect has run its
\* else branch on mount and registered nothing.
LoggedOut == [user |-> NULL, token |-> NULL, dirty |-> FALSE, mounted |-> NULL, gen |-> 1, pc |-> "idle"]

InitTransport ==
  /\ ws = NULL
  /\ reconnectTimer = NULL
  /\ userId = NULL
  /\ token = NULL
  /\ isConnecting = FALSE
  /\ rs = [s \in SocketIds |-> "CLOSED"]
  /\ established = {}
  /\ timers = [t \in TimerIds |-> -1]

InitStore ==
  /\ notifications = <<>>
  /\ unreadCount = 0
  /\ isConnected = FALSE

InitEnv ==
  /\ srv = [n \in NotifIds |-> "none"]
  /\ wsIn = <<>>
  /\ wsOut = <<>>
  /\ calls = [k \in CallIds |-> Idle]

Init ==
  /\ InitTransport
  /\ InitStore
  /\ InitEnv
  /\ listeners = NoListeners
  /\ auth = LoggedOut
  /\ last = Step("init", NoArg, NULL, 0, NULL, <<>>, <<>>)

\* The transport driven by a caller and by the browser
Next ==
  \/ \E p \in UserIds, c \in Tokens, throws \in BOOLEAN : Connect(p, c, throws)
  \/ Disconnect
  \/ \E m \in {"mark_read", "get_notifications"} : Send(m)
  \/ \E s \in SocketIds : WsOpen(s)
  \/ \E s \in SocketIds, code \in CleanCodes : WsClose(s, code)
  \/ \E s \in SocketIds : WsFail(s)
  \/ \E s \in SocketIds, raw \in RawFrames : WsMessage(s, raw)
  \/ Tick
  \/ \E t \in TimerIds : TimerFire(t)

Spec == Init /\ [][Next]_vars

\* =================================================================== the
\* notification store of one session, over an open connection, with the server

\* ----------------------------------------------------------- the server
\* The notifications the server holds for the principal, newest first (ids are
\* assigned in increasing order), as the list both the notifications_list frame
\* and GET /notifications carry.
RECURSIVE SrvList(_, _)
SrvList(tbl, n) ==
  IF n = 0 THEN <<>>
  ELSE (IF tbl[n] = "none" THEN <<>> ELSE <<[id |-> n, is_read |-> tbl[n] = "read"]>>)
         \o SrvList(tbl, n - 1)

SrvUnread(tbl) == Cardinality({n \in NotifIds : tbl[n] = "unread"})

MarkedRead(tbl, n) == IF tbl[n] = "unread" THEN [tbl EXCEPT ![n] = "read"] ELSE tbl

AllMarkedRead(tbl) == [n \in NotifIds |-> IF tbl[n] = "unread" THEN "read" ELSE tbl[n]]

Frame(type, data) == [ok |-> TRUE, type |-> type, data |-> data]

\* A domain event creates notification n for the principal; the server pushes it.
SrvCreate(n) ==
  /\ srv[n] = "none"
  /\ \A m \in NotifIds : m < n => srv[m] # "none"
  /\ Len(wsIn) < MaxWire
  /\ srv' = [srv EXCEPT ![n] = "unread"]
  /\ wsIn' = Append(wsIn, Frame("notification", [id |-> n, is_read |-> FALSE]))
  /\ UNCHANGED <<tvars, lvars, svars, wsOut, calls, last>>

\* The server reports the unread count of its table.
SrvSendCount ==
  /\ Len(wsIn) < MaxWire
  /\ wsIn' = Append(wsIn, Frame("unread_count", [count |-> SrvUnread(srv)]))
  /\ UNCHANGED <<tvars, lvars, svars, srv, wsOut, calls, last>>

\* The server receives the next frame the client transmitted.
SrvRecv ==
  /\ wsOut # <<>>
  /\ wsOut' = Tail(wsOut)
  /\ LET f == Head(wsOut)
     IN CASE f.type = "get_notifications" ->
               /\ Len(wsIn) < MaxWire
               /\ wsIn' = Append(wsIn, Frame("notifications_list", SrvList(srv, MaxNotifs)))
               /\ UNCHANGED srv
          [] f.type = "mark_read" ->
               /\ srv' = MarkedRead(srv, f.id)
               /\ UNCHANGED wsIn
          [] OTHER ->
               /\ srv' = AllMarkedRead(srv)
               /\ UNCHANGED wsIn
  /\ UNCHANGED <<tvars, lvars, svars, calls, last>>

\* The next frame of the server reaches the socket: ws.onmessage
WsDeliver ==
  /\ wsIn # <<>>
  /\ IsOpen(ws, rs)
  /\ onmessage(ws, Head(wsIn))
  /\ wsIn' = Tail(wsIn)
  /\ UNCHANGED <<srv, wsOut, calls>>

\* The REST endpoint handles request k.
RestProcess(k) ==
  /\ calls[k].st = "sent"
  /\ CASE calls[k].op = "markAsRead" ->
            /\ srv' = MarkedRead(srv, calls[k].id)
            /\ calls' = [calls EXCEPT ![k].st = "ok"]
       [] calls[k].op = "markAllAsRead" ->
            /\ srv' = AllMarkedRead(srv)
            /\ calls' = [calls EXCEPT ![k].st = "ok"]
       [] calls[k].op = "getAll" ->
            /\ calls' = [calls EXCEPT ![k].st = "ok", ![k].data = SrvList(srv, MaxNotifs)]
            /\ UNCHANGED srv
       [] OTHER ->
            /\ calls' = [calls EXCEPT ![k].st = "ok", ![k].data = [count |-> SrvUnread(srv)]]
            /\ UNCHANGED srv
  /\ UNCHANGED <<tvars, lvars, svars, wsIn, wsOut, last>>

\* ---------------------------------------------------- the store's operations
FreeCall == CHOOSE k \in CallIds : calls[k].op = "idle" /\ \A j \in CallIds : calls[j].op = "idle" => k <= j

HasFreeCall == \E k \in CallIds : calls[k].op = "idle"

Call(op, id) == [op |-> op, id |-> id, st |-> "sent", data |-> <<>>]

\* webSocketService.send from a store operation: the frame goes on the wire
\* when the service holds an open socket
Transmit(type, id) ==
  /\ IsOpen(ws, rs) => Len(wsOut) < MaxWire
  /\ wsOut' = IF IsOpen(ws, rs) THEN Append(wsOut, [type |-> type, id |-> id]) ELSE wsOut

\* markAsRead(notificationId) up to its await: the transport send and the REST call
markAsReadStart(id) ==
  /\ HasFreeCall
  /\ Transmit("mark_read", id)
  /\ calls' = [calls EXCEPT ![FreeCall] = Call("markAsRead", id)]
  /\ last' = Step("markAsRead", [id |-> id], ws, 0, NULL, send(ws, rs, "mark_read"), <<>>)
  /\ UNCHANGED <<tvars, lvars, svars, srv, wsIn>>

RECURSIVE MapRead(_, _)
MapRead(list, id) ==
  IF list = <<>> THEN <<>>
  ELSE <<IF Head(list).id = id THEN [Head(list) EXCEPT !.is_read = TRUE] ELSE Head(list)>>
         \o MapRead(Tail(list), id)

Max(a, b) == IF a >= b THEN a ELSE b

\* markAsRead's update without the Math.max(0, ...) floor
markAsReadDoneNoFloor(st, id) ==
  [st EXCEPT !.notifications = MapRead(st.notifications, id),
             !.unreadCount = st.unreadCount - 1]

\* markAsRead after its await resolved
markAsReadDone(st, id) ==
  [st EXCEPT !.notifications = MapRead(st.notifications, id),
             !.unreadCount = Max(0, st.unreadCount - 1)]

\* NotificationBell.handleNotificationClick on a rendered item
handleNotificationClick(i) ==
  /\ i \in DOMAIN notifications
  /\ ~notifications[i].is_read
  /\ markAsReadStart(notifications[i].id)

\* markAllAsRead() up to its await
markAllAsReadStart ==
  /\ HasFreeCall
  /\ Transmit("mark_all_read", NULL)
  /\ calls' = [calls EXCEPT ![FreeCall] = Call("markAllAsRead", NULL)]
  /\ last' = Step("markAllAsRead", NoArg, ws, 0, NULL, send(ws, rs, "mark_all_read"), <<>>)
  /\ UNCHANGED <<tvars, lvars, svars, srv, wsIn>>

RECURSIVE MapAllRead(_)
MapAllRead(list) ==
  IF list = <<>> THEN <<>>
  ELSE <<[Head(list) EXCEPT !.is_read = TRUE]>> \o MapAllRead(Tail(list))

\* markAllAsRead's update applied to the first item only
markAllAsReadDoneHeadOnly(st) ==
  [st EXCEPT !.notifications =
               IF st.notifications = <<>> THEN <<>>
               ELSE <<[Head(st.notifications) EXCEPT !.is_read = TRUE]>> \o Tail(st.notifications),
             !.unreadCount = 0]

\* markAllAsRead after its await resolved
markAllAsReadDone(st) ==
  [st EXCEPT !.notifications = MapAllRead(st.notifications), !.unreadCount = 0]

\* refreshNotifications() up to its first await
refreshNotificationsStart ==
  /\ HasFreeCall
  /\ Cardinality({k \in CallIds : calls[k].op \in {"getAll", "getUnreadCount"}}) < MaxRefresh
  /\ Transmit("get_notifications", NULL)
  /\ calls' = [calls EXCEPT ![FreeCall] = Call("getAll", NULL)]
  /\ last' = Step("refresh", NoArg, ws, 0, NULL, send(ws, rs, "get_notifications"), <<>>)
  /\ UNCHANGED <<tvars, lvars, svars, srv, wsIn>>

\* The promise of REST call k resolves: the code after the await runs.
RestDone(k) ==
  /\ calls[k].st = "ok"
  /\ CASE calls[k].op = "markAsRead" ->
            /\ SetStore(markAsReadDone(StoreRec, calls[k].id))
            /\ calls' = [calls EXCEPT ![k] = Idle]
       [] calls[k].op = "markAllAsRead" ->
            /\ SetStore(markAllAsReadDone(StoreRec))
            /\ calls' = [calls EXCEPT ![k] = Idle]
       [] calls[k].op = "getAll" ->
            /\ SetStore([StoreRec EXCEPT !.notifications = calls[k].data])
            /\ calls' = [calls EXCEPT ![k] = Call("getUnreadCount", NULL)]
       [] OTHER ->
            /\ SetStore([StoreRec EXCEPT !.unreadCount = calls[k].data.count])
            /\ calls' = [calls EXCEPT ![k] = Idle]
  /\ last' = Step(calls[k].op \o ":done", [id |-> calls[k].id], NULL, 0, NULL, <<>>, <<>>)
  /\ UNCHANGED <<tvars, lvars, srv, wsIn, wsOut>>

\* The promise of REST call k rejects (network error, or a response that is
\* not ok), before or after the server handled the request: the catch block
\* logs and the operation ends.
RestFail(k) ==
  /\ calls[k].st \in {"sent", "ok"}
  /\ calls' = [calls EXCEPT ![k] = Idle]
  /\ last' = Step(calls[k].op \o ":fail", [id |-> calls[k].id], NULL, 0, NULL, <<>>, <<>>)
  /\ UNCHANGED <<tvars, lvars, svars, srv, wsIn, wsOut>>

\* ------------------------------------------------------------ the session
\* The handlers the provider's effect registers, in its order of registration
SessionListeners(g) ==
  [e \in EventNames |->
     <<[fn |-> CASE e = "connect" -> "handleConnect"
                 [] e = "disconnect" -> "handleDisconnect"
                 [] e = "notification" -> "handleNotification"
                 [] e = "unread_count" -> "handleUnreadCount"
                 [] e = "notifications_list" -> "handleNotificationsList"
                 [] OTHER -> "handleError",
        gen |-> g]>>]

\* A logged-in session whose first connection has opened: the effect has run
\* connect() and registered the handlers, onopen has run and its
\* get_notifications frame is on the wire.
InitSession ==
  /\ ws = 1
  /\ reconnectTimer = NULL
  /\ userId = 1
  /\ token = 1
  /\ isConnecting = FALSE
  /\ rs = [s \in SocketIds |-> IF s = 1 THEN "OPEN" ELSE "CLOSED"]
  /\ established = {1}
  /\ timers = [t \in TimerIds |-> -1]
  /\ listeners = SessionListeners(1)
  /\ auth = [user |-> 1, token |-> 1, dirty |-> FALSE, mounted |-> 1, gen |-> 1, pc |-> "idle"]
  /\ notifications = <<>>
  /\ unreadCount = 0
  /\ isConnected = TRUE
  /\ srv = [n \in NotifIds |-> "none"]
  /\ wsIn = <<>>
  /\ wsOut = <<[type |-> "get_notifications", id |-> NULL]>>
  /\ calls = [k \in CallIds |-> Idle]
  /\ last = Step("init", NoArg, NULL, 0, NULL, <<>>, <<>>)

NextStore ==
  \/ \E n \in NotifIds : SrvCreate(n)
  \/ SrvSendCount
  \/ SrvRecv
  \/ WsDeliver
  \/ \E k \in CallIds : RestProcess(k)
  \/ \E k \in CallIds : RestDone(k)
  \/ \E k \in CallIds : RestFail(k)
  \/ \E i \in 1..(2 * MaxNotifs) : handleNotificationClick(i)
  \/ markAllAsReadStart
  \/ refreshNotificationsStart

SpecStore == InitSession /\ [][NextStore]_vars

\* =================================================================== the
\* provider's sessions: AuthProvider's state, the provider's effect on
\* [user, token], and the transport under it

\* The closure the effect run g creates for an event
Handler(e, g) == SessionListeners(g)[e][1]

\* The six on() calls of the effect body and the six off() calls of its
\* cleanup, in the order of the code
EffectEvents == <<"connect", "disconnect", "notification", "unread_count", "notifications_list", "error">>

RECURSIVE onAll(_, _, _)
onAll(ls, es, g) ==
  IF es = <<>> THEN ls ELSE onAll(on(ls, Head(es), Handler(Head(es), g)), Tail(es), g)

\* (the set binds the map each off() leaves to a value before the next call)
RECURSIVE offAll(_, _, _)
offAll(ls, es, g) ==
  IF es = <<>> THEN ls
  ELSE CHOOSE r \in {offAll(l, Tail(es), g) : l \in {off(ls, Head(es), Handler(Head(es), g))}} : TRUE

Cleared == [notifications |-> <<>>, unreadCount |-> 0, isConnected |-> FALSE]

\* AuthProvider: setToken (login, initializeAuth)
AuthSetToken(t) ==
  /\ TaskIdle
  /\ ~auth.dirty
  /\ auth.user = NULL
  /\ auth.token # t
  /\ auth' = [auth EXCEPT !.token = t, !.dirty = TRUE]
  /\ UNCHANGED <<tvars, listeners, svars, evars, last>>

\* AuthProvider: setUser with a user object (login and initializeAuth after
\* setToken; updateUser): a new object, so the effect's dependencies change.
AuthSetUser(u) ==
  /\ TaskIdle
  /\ ~auth.dirty
  /\ auth.token # NULL
  /\ auth' = [auth EXCEPT !.user = u, !.dirty = TRUE]
  /\ UNCHANGED <<tvars, listeners, svars, evars, last>>

\* AuthProvider.logout: setUser(null); setToken(null), one render
AuthLogout ==
  /\ TaskIdle
  /\ ~auth.dirty
  /\ auth.user # NULL \/ auth.token # NULL
  /\ auth' = [auth EXCEPT !.user = NULL, !.token = NULL, !.dirty = TRUE]
  /\ UNCHANGED <<tvars, listeners, svars, evars, last>>

\* The effect's cleanup without setNotifications([])
effectCleanupKeepsList(g) ==
  /\ listeners' = offAll(listeners, EffectEvents, g)
  /\ disconnect
  /\ SetStore([Cleared EXCEPT !.notifications = notifications])

\* The effect's cleanup without its six off() calls
effectCleanupKeepsListeners(g) ==
  /\ UNCHANGED listeners
  /\ disconnect
  /\ SetStore(Cleared)

\* The cleanup function the effect run g returned
effectCleanup(g) ==
  /\ listeners' = offAll(listeners, EffectEvents, g)
  /\ disconnect
  /\ SetStore(Cleared)

\* The dependencies changed while an effect with a cleanup is mounted: React
\* runs the cleanup, and then the body in the same commit.
EffectCleanup ==
  /\ auth.dirty
  /\ auth.mounted # NULL
  /\ TaskIdle
  /\ effectCleanup(auth.mounted)
  /\ auth' = [auth EXCEPT !.mounted = NULL, !.pc = "body"]
  /\ last' = Step("effect:cleanup", NoArg, ws, 0, NULL, <<>>, <<>>)
  /\ UNCHANGED evars

\* The effect body
EffectBody ==
  /\ auth.dirty
  /\ auth.mounted = NULL
  /\ IF auth.user # NULL /\ auth.token # NULL
     THEN /\ \E throws \in BOOLEAN :
               /\ connect(auth.user, auth.token, throws, "effect")
               /\ listeners' = onAll(connectListeners(throws), EffectEvents, 3 - auth.gen)
          /\ auth' = [auth EXCEPT !.dirty = FALSE, !.mounted = 3 - auth.gen,
                                  !.gen = 3 - auth.gen, !.pc = "idle"]
          /\ UNCHANGED <<reconnectTimer, timers>>
     ELSE /\ disconnect
          /\ SetStore(Cleared)
          /\ last' = Step("effect:else", NoArg, ws, 0, NULL, <<>>, <<>>)
          /\ auth' = [auth EXCEPT !.dirty = FALSE, !.pc = "idle"]
          /\ UNCHANGED listeners
  /\ UNCHANGED evars

\* Frames that carry no event: text that is not JSON or the JSON null
\* (JSON.parse or message.type throws), and JSON without a type field
\* (message.type is undefined)
UndecodableFrames ==
  {[ok |-> ok, type |-> "undefined", data |-> [count |-> 0]] : ok \in BOOLEAN}

\* A frame that carries no event arrives on socket s
WsGarbage(s, raw) == WsMessage(s, raw)

\* A notification frame of the server arrives on socket s
WsPush(s, n) ==
  /\ Len(notifications) < MaxNotifs
  /\ WsMessage(s, Frame("notification", [id |-> n, is_read |-> FALSE]))

NextSession ==
  \/ \E t \in Tokens : AuthSetToken(t)
  \/ \E u \in UserIds : AuthSetUser(u)
  \/ AuthLogout
  \/ EffectCleanup
  \/ EffectBody
  \/ \E s \in SocketIds : WsOpen(s)
  \/ \E s \in SocketIds, code \in CleanCodes : WsClose(s, code)
  \/ \E s \in SocketIds : WsFail(s)
  \/ \E s \in SocketIds, n \in NotifIds : WsPush(s, n)
  \/ \E s \in SocketIds, raw \in UndecodableFrames : WsGarbage(s, raw)
  \/ Tick
  \/ \E t \in TimerIds : TimerFire(t)

SpecSession == Init /\ [][NextSession]_vars

\* =================================================================== the
\* transport of a caller that connects and never disconnects, against a server
\* that refuses or drops connections: the browser keeps running timers and
\* delivers the open event of a connection the server accepts
NextReconnect ==
  \/ \E p \in UserIds, c \in Tokens, throws \in BOOLEAN : Connect(p, c, throws)
  \/ \E s \in SocketIds : WsOpen(s)
  \/ \E s \in SocketIds : WsClose(s, ManualClose + 1)
  \/ \E s \in SocketIds : WsFail(s)
  \/ Tick
  \/ \E t \in TimerIds : TimerFire(t)

SpecReconnect ==
  /\ Init
  /\ [][NextReconnect]_vars
  /\ WF_vars(Tick)
  /\ WF_vars(\E t \in TimerIds : TimerFire(t))
  /\ WF_vars(\E s \in SocketIds : WsOpen(s))

\* =================================================================== the
\* dispatcher: callers register and remove listeners of their own on the
\* transport

\* Callbacks of a caller: one that throws and one that returns
DispatchHandlers == {[fn |-> f, gen |-> NULL] : f \in {"thrower", "probe"}}

\* The event names the callers listen to: the ones the socket callbacks and
\* the frames of RawFrames make the transport emit
DispatchEvents == {"connect", "disconnect", "error", "unread_count"}

Registered == {<<e, i>> \in EventNames \X (1..MaxListeners) : i \in DOMAIN listeners[e]}

\* webSocketService.on(event, callback)
On(e, h) ==
  /\ Cardinality(Registered) < MaxListeners
  /\ listeners' = on(listeners, e, h)
  /\ last' = Step("on", [event |-> e, h |-> h], NULL, 0, NULL, <<>>, <<>>)
  /\ UNCHANGED <<tvars, auth, svars, evars>>

\* webSocketService.off(event, callback)
Off(e, h) ==
  /\ listeners' = off(listeners, e, h)
  /\ last' = Step("off", [event |-> e, h |-> h], NULL, 0, NULL, <<>>, <<>>)
  /\ UNCHANGED <<tvars, auth, svars, evars>>

NextDispatch ==
  \/ \E e \in DispatchEvents, h \in DispatchHandlers : On(e, h)
  \/ \E e \in DispatchEvents, h \in DispatchHandlers : Off(e, h)
  \/ \E throws \in BOOLEAN : Connect(MaxUsers, MaxTokens, throws)
  \/ Disconnect
  \/ \E s \in SocketIds : WsOpen(s)
  \/ \E s \in SocketIds, code \in CleanCodes : WsClose(s, code)
  \/ \E s \in SocketIds : WsFail(s)
  \/ \E s \in SocketIds, raw \in RawFrames : WsMessage(s, raw)
  \/ Tick
  \/ \E t \in TimerIds : TimerFire(t)

SpecDispatch == Init /\ [][NextDispatch]_vars

\* =================================================================== the
\* listener lists: callers whose callbacks register and remove listeners
\* while an emit is running, on one open connection

\* Callbacks of the callers: the two of DispatchHandlers, one that removes
\* itself and one that registers another
ListenHandlers == {[fn |-> f, gen |-> NULL] : f \in {"thrower", "probe", "once", "adder"}}

\* off() is called for SelfEvent and for an event that never has a listener
ListenEvents == {SelfEvent, "error"}

\* webSocketService.on(SelfEvent, callback)
Subscribe(h) ==
  /\ Len(listeners[SelfEvent]) < MaxRegs
  /\ listeners' = on(listeners, SelfEvent, h)
  /\ last' = Step("on", [event |-> SelfEvent, h |-> h], NULL, 0, NULL, <<>>, <<>>)
  /\ UNCHANGED <<tvars, auth, svars, evars>>

\* A frame of type SelfEvent arrives on socket s
WsNotify(s) ==
  /\ WsMessage(s, [ok |-> TRUE, type |-> SelfEvent, data |-> [count |-> 0]])
  /\ Len(listeners'[SelfEvent]) <= MaxRegs

NextListen ==
  \/ \E h \in ListenHandlers : Subscribe(h)
  \/ \E e \in ListenEvents, h \in ListenHandlers : Off(e, h)
  \/ Connect(MaxUsers, MaxTokens, FALSE)
  \/ \E s \in SocketIds : WsOpen(s)
  \/ \E s \in SocketIds : WsNotify(s)

SpecListen == Init /\ [][NextListen]_vars

\* =================================================================== the
\* resynchronisation: a logged-in session whose connection is lost and made
\* again, and the server that answers get_notifications

\* A connection to the server exists
ConnectionUp == \E s \in SocketIds : rs[s] = "OPEN" /\ s \in established

\* A domain event creates notification n while no connection exists: there is
\* nothing to push it on.
SrvCreateDown(n) ==
  /\ ~ConnectionUp
  /\ srv[n] = "none"
  /\ \A m \in NotifIds : m < n => srv[m] # "none"
  /\ srv' = [srv EXCEPT ![n] = "unread"]
  /\ UNCHANGED <<tvars, lvars, svars, wsIn, wsOut, calls, last>>

\* The frames send() handed to the socket, as the server receives them
RECURSIVE Wire(_)
Wire(tx) == IF tx = <<>> THEN <<>> ELSE <<[type |-> Head(tx).type, id |-> NULL]>> \o Wire(Tail(tx))

\* ws.onopen of socket s; its get_notifications frame goes to the server
WsOpenWire(s) ==
  /\ TaskIdle
  /\ rs[s] = "CONNECTING"
  /\ Len(wsOut) < MaxWire
  /\ onopen(s)
  /\ wsOut' = wsOut \o Wire(last'.tx)
  /\ UNCHANGED <<auth, srv, wsIn, calls>>

\* The next frame of the server arrives on the open socket s: the onmessage
\* of every socket the service created dispatches to the service's listeners
WsDeliverOn(s) ==
  /\ TaskIdle
  /\ wsIn # <<>>
  /\ rs[s] = "OPEN" /\ s \in established
  /\ onmessage(s, Head(wsIn))
  /\ wsIn' = Tail(wsIn)
  /\ UNCHANGED <<srv, wsOut, calls>>

\* The frames in flight are lost with the last connection
Lose(s, q) == IF \E u \in SocketIds \ {s} : rs[u] = "OPEN" /\ u \in established THEN q ELSE <<>>

\* The close event of a socket that disconnect() closed
WsClosed(s) ==
  /\ TaskIdle
  /\ rs[s] = "CLOSING"
  /\ s \in established
  /\ onclose(s, ManualClose, StoreRec, <<>>, "close")
  /\ wsIn' = Lose(s, wsIn)
  /\ wsOut' = Lose(s, wsOut)
  /\ UNCHANGED <<auth, srv, calls>>

\* The connection of socket s is lost, or its handshake fails
WsLost(s) ==
  /\ TaskIdle
  /\ rs[s] \in {"CONNECTING", "OPEN", "CLOSING"}
  /\ onclose(s, AbnormalCode, onerror(StoreRec), <<"error">>, "fail")
  /\ wsIn' = Lose(s, wsIn)
  /\ wsOut' = Lose(s, wsOut)
  /\ UNCHANGED <<auth, srv, calls>>

\* updateUser(userData) of the logged-in principal
UpdateUser == AuthSetUser(auth.user)

NextResync ==
  \/ \E n \in NotifIds : SrvCreateDown(n)
  \/ SrvRecv
  \/ UpdateUser
  \/ EffectCleanup
  \/ EffectBody
  \/ \E s \in SocketIds : WsOpenWire(s)
  \/ \E s \in SocketIds : WsDeliverOn(s)
  \/ \E s \in SocketIds : WsClosed(s)
  \/ \E s \in SocketIds : WsLost(s)
  \/ Tick
  \/ \E t \in TimerIds : TimerFire(t)

\* The browser delivers the events of its sockets and timers, React runs the
\* effect, the server answers the frames it receives.
SpecResync ==
  /\ InitSession
  /\ [][NextResync]_vars
  /\ WF_vars(SrvRecv)
  /\ WF_vars(EffectCleanup)
  /\ WF_vars(EffectBody)
  /\ WF_vars(\E s \in SocketIds : WsOpenWire(s))
  /\ WF_vars(\E s \in SocketIds : WsDeliverOn(s))
  /\ WF_vars(\E s \in SocketIds : WsClosed(s))
  /\ WF_vars(Tick)
  /\ WF_vars(\E t \in TimerIds : TimerFire(t))

\* =================================================================== the
\* store at the end of a session: the operations of a logged-in session, their
\* REST calls, and the logout that follows

LoggedIn == auth.user # NULL /\ auth.token # NULL

\* The operations of the store, called from the UI of a logged-in user
UserClick(i) == TaskIdle /\ ~auth.dirty /\ LoggedIn /\ handleNotificationClick(i)

UserMarkAll == TaskIdle /\ ~auth.dirty /\ LoggedIn /\ markAllAsReadStart

UserRefresh == TaskIdle /\ ~auth.dirty /\ LoggedIn /\ refreshNotificationsStart

\* The continuation after an await runs as a task of its own
Resolved(k) == TaskIdle /\ RestDone(k)

Rejected(k) == TaskIdle /\ RestFail(k)

NextLogout ==
  \/ \E n \in NotifIds : SrvCreate(n)
  \/ SrvRecv
  \/ \E s \in SocketIds : WsDeliverOn(s)
  \/ \E k \in CallIds : RestProcess(k)
  \/ \E k \in CallIds : Resolved(k)
  \/ \E k \in CallIds : Rejected(k)
  \/ \E i \in 1..MaxNotifs : UserClick(i)
  \/ UserMarkAll
  \/ UserRefresh
  \/ AuthLogout
  \/ EffectCleanup
  \/ EffectBody
  \/ \E s \in SocketIds : WsClosed(s)

SpecLogout == InitSession /\ [][NextLogout]_vars

\* ======================================================= the transport's claims

LiveSockets == {s \in SocketIds : Live(s)}

IdentityStored == userId # NULL /\ token # NULL

IsCloseStep(l) == l.op \in {"close", "fail"}

\* C1: in every reachable state at most one socket created by the transport
\* is connecting or open.
C1_AtMostOneLiveSocket == Cardinality(LiveSockets) <= 1

C3_NoReconnectAfterDisconnect ==
  [][(IsCloseStep(last') /\ last'.code # ManualClose /\ rs[last'.sock] = "CLOSING")
        => /\ timers' = timers
           /\ reconnectTimer' = reconnectTimer]_vars

\* C4: disconnect() cancels the pending reconnect timer and clears the stored
\* principal id and credential; while they are cleared no timer is pending and
\* no socket is created except by a caller's connect().
C4_DisconnectCancelsReconnect ==
  [][/\ last'.op = "disconnect"
          => /\ PendingTimers' = {}
             /\ reconnectTimer' = NULL
             /\ userId' = NULL /\ token' = NULL
             /\ ws' = NULL
     /\ ~IdentityStored' => PendingTimers' = {}
     /\ (~IdentityStored /\ last'.created # NULL) => last'.op = "connect"
     /\ (~IdentityStored /\ last'.op \in {"timer", "timer-idle"}) => FALSE]_vars

\* C4's case: disconnect() was called while a reconnect timer was pending.
C4_Witness == last.op = "disconnect" /\ last.pre.timer /\ PendingTimers = {}

\* C5: every open of a connection transmits exactly one get_notifications
\* frame on that connection.
C5_OneGetNotificationsPerOpen ==
  last.op = "open" => last.tx = <<[sock |-> last.sock, type |-> "get_notifications"]>>

C6_WitnessConnecting ==
  last.op = "connect" /\ last.pre.state = "connecting" /\ last.arg.userId # last.pre.userId

\* C17: send() without an open connection transmits nothing and changes no
\* field of the transport; nothing is kept for later: a frame goes on the wire
\* only in the send() call that passes it, on the open socket, or as the
\* get_notifications of an open.
C17_SendWithoutConnectionDropped ==
  [][/\ (last'.op = "send" /\ ~IsOpen(ws, rs))
          => /\ last'.tx = <<>>
             /\ UNCHANGED tvars
     /\ last'.tx # <<>>
          => \/ last'.op = "send" /\ IsOpen(ws, rs) /\ Len(last'.tx) = 1 /\ last'.tx[1].sock = ws
             \/ last'.op = "open" /\ Len(last'.tx) = 1 /\ last'.tx[1].type = "get_notifications"]_vars

\* C17's case: send() while a connection attempt is in flight.
C17_Witness ==
  /\ last.op = "send"
  /\ last.pre.state = "connecting"
  /\ ws # NULL
  /\ last.tx = <<>>

\* A connect() whose WebSocket constructor threw
IsThrowStep(l) == l.op \in {"connect", "timer"} /\ l.emitted = <<"error">>

\* C18: with the identity stored and no disconnect(), when every attempt
\* creates its socket and from some point on no connection fails or is closed
\* any more, the transport becomes connected and stays so, whatever the number
\* of attempts that failed before.
C18_EventuallyConnected ==
  ([]~IsThrowStep(last) /\ <>[][~IsCloseStep(last')]_vars /\ <>IdentityStored)
    => <>[](ConnectionState = "connected")

\* C18's case: the socket of a reconnect attempt made by the timer failed and
\* a further attempt is scheduled.
C18_Witness ==
  /\ last.op = "fail"
  /\ last.afterTimer
  /\ last.pre.state = "connecting"
  /\ reconnectTimer \in PendingTimers
  /\ timers[reconnectTimer] = ReconnectDelay

\* C19: at most one reconnect timer is pending, and it is the one the service
\* holds; a close that schedules a reconnect while a timer is pending leaves
\* one timer, set to the full delay; an open leaves none.
C19_AtMostOnePendingTimer ==
  [][/\ Cardinality(PendingTimers') <= 1
     /\ PendingTimers' \subseteq {reconnectTimer'}
     /\ (IsCloseStep(last') /\ last'.code # ManualClose /\ IdentityStored /\ PendingTimers # {})
          => /\ PendingTimers' = {reconnectTimer'}
             /\ timers'[reconnectTimer'] = ReconnectDelay
     /\ last'.op = "open" => PendingTimers' = {} /\ reconnectTimer' = NULL]_vars

\* C19's case: a reconnect was scheduled while an earlier timer was pending.
C19_Witness ==
  /\ IsCloseStep(last)
  /\ last.code # ManualClose
  /\ last.pre.timer
  /\ PendingTimers = {reconnectTimer}
  /\ timers[reconnectTimer] = ReconnectDelay

\* C19's other case: a connection opened while a reconnect timer was pending.
C19_WitnessOpen == last.op = "open" /\ last.pre.timer /\ PendingTimers = {}

C20_WitnessManual ==
  last.op = "close" /\ last.code = ManualClose /\ last.pre.rs = "CLOSING" /\ PendingTimers = {}

C20_WitnessAbnormal ==
  last.op = "close" /\ last.code # ManualClose /\ last.pre.rs = "OPEN" /\ PendingTimers # {}

\* =========================================================== the store's claims

ReadIn(list, n) == \E i \in DOMAIN list : list[i].id = n /\ list[i].is_read

UnreadIn(list, n) == \E i \in DOMAIN list : list[i].id = n /\ ~list[i].is_read

UnreadItems(list) == Cardinality({i \in DOMAIN list : ~list[i].is_read})

NoCallInFlight == \A k \in CallIds : calls[k].op = "idle"

\* C7: a notification that is in the list with is_read true is not in the list
\* with is_read false after any later step of the session.
C7_ReadNeverReverts ==
  [][\A n \in NotifIds : ReadIn(notifications, n) => ~UnreadIn(notifications', n)]_vars

\* C8: after notification pushes and mark-read operations whose REST calls
\* succeeded, with no override in between and no call in flight, the unread
\* count equals the number of list items with is_read false.
C8_CountMatchesUnreadItems ==
  (last.plain /\ NoCallInFlight) => unreadCount = UnreadItems(notifications)

\* C9: the unread count is never negative, and a markAsRead decrement at 0
\* leaves it at 0.
C9_UnreadCountNeverNegative ==
  /\ unreadCount >= 0
  /\ (last.op = "markAsRead:done" /\ last.pre.unreadCount = 0) => unreadCount = 0

\* C9's case: a markAsRead completion decremented a count that was 0.
C9_Witness == last.op = "markAsRead:done" /\ last.pre.unreadCount = 0 /\ unreadCount = 0

\* C10: when markAsRead(id) has been initiated and its REST response has not
\* arrived, the item is already is_read true and the count already decremented.
C10_UpdateOnInitiation ==
  last.op = "markAsRead"
    => /\ ~UnreadIn(notifications, last.arg.id)
       /\ unreadCount = Max(0, last.pre.unreadCount - 1)

\* C11: when the REST call of markAsRead(id) or markAllAsRead() fails right
\* after the operation was initiated, the list shows the affected items with
\* is_read true and the count is the reduced one (0 for markAllAsRead).
C11_FailureKeepsOptimisticState ==
  [][\A k \in CallIds :
       /\ (RestFail(k) /\ calls[k].op = "markAsRead"
              /\ last.op = "markAsRead" /\ last.arg.id = calls[k].id)
            => /\ ~UnreadIn(notifications', calls[k].id)
               /\ unreadCount' = Max(0, last.pre.unreadCount - 1)
       /\ (RestFail(k) /\ calls[k].op = "markAllAsRead" /\ last.op = "markAllAsRead")
            => /\ UnreadItems(notifications') = 0
               /\ unreadCount' = 0]_vars

SameIds(l1, l2) ==
  /\ Len(l1) = Len(l2)
  /\ \A i \in DOMAIN l1 : l1[i].id = l2[i].id

NewCalls == {k \in CallIds : calls'[k] # calls[k]}

\* C12: markAllAsRead() transmits one mark_all_read frame on the open socket
\* and issues one REST mark-all-read call; when that call succeeds, every item
\* of the list is is_read true (same items, same order) and the count is 0.
C12_MarkAllAsRead ==
  [][/\ markAllAsReadStart
          => /\ last'.tx = <<[sock |-> ws, type |-> "mark_all_read"]>>
             /\ wsOut' = Append(wsOut, [type |-> "mark_all_read", id |-> NULL])
             /\ Cardinality(NewCalls) = 1
             /\ \A k \in NewCalls : calls[k] = Idle /\ calls'[k] = Call("markAllAsRead", NULL)
             /\ UNCHANGED svars
     /\ \A k \in CallIds :
          (RestDone(k) /\ calls[k].op = "markAllAsRead")
            => /\ UnreadItems(notifications') = 0
               /\ SameIds(notifications', notifications)
               /\ unreadCount' = 0]_vars

\* C12's case: markAllAsRead completed on a list of several items with a
\* positive unread count.
C12_Witness ==
  /\ last.op = "markAllAsRead:done"
  /\ last.pre.unreadCount > 0
  /\ Len(notifications) >= 2
  /\ UnreadItems(notifications) = 0

\* The next delivery is a frame of one of the given types
Delivers(types) == WsDeliver /\ Head(wsIn).type \in types

\* A REST call of one of the given operations completes
Completes(ops) == \E k \in CallIds : RestDone(k) /\ calls[k].op \in ops

ListFrameReplacesList ==
  Delivers({"notifications_list"})
    => /\ notifications' = Head(wsIn).data
       /\ unreadCount' = unreadCount

\* C14, as stated: a notifications_list event replaces the list with its
\* snapshot and leaves the unread count unchanged; the unread count changes
\* only through unread_count events, notification events and mark-read
\* operations.
C14_CountOnlyByEventsAndMarkRead ==
  [][/\ ListFrameReplacesList
     /\ unreadCount' # unreadCount
          => \/ Delivers({"unread_count", "notification"})
             \/ Completes({"markAsRead", "markAllAsRead"})]_vars

\* C14, amended: within a session the unread count changes also through the
\* REST unread-count response of refreshNotifications, and through nothing
\* else.
C14_ListReplacedCountKept ==
  [][/\ ListFrameReplacesList
     /\ unreadCount' # unreadCount
          => \/ Delivers({"unread_count", "notification"})
             \/ Completes({"markAsRead", "markAllAsRead", "getUnreadCount"})]_vars

\* C14's case: a snapshot replaced the list and the count, left as it was,
\* is not the number of unread items of the snapshot.
C14_Witness ==
  /\ last.op = "message"
  /\ last.emitted = <<"notifications_list">>
  /\ notifications # <<>>
  /\ unreadCount = last.pre.unreadCount
  /\ unreadCount # UnreadItems(notifications)

\* C15: an unread_count event carrying n sets the unread count to n; a
\* notification event puts its item at position 0, keeps the items already in
\* the list in their order and raises the unread count by exactly 1.
C15_CountSetThenIncremented ==
  [][/\ Delivers({"unread_count"})
          => /\ unreadCount' = Head(wsIn).data.count
             /\ notifications' = notifications
     /\ Delivers({"notification"})
          => /\ notifications'[1] = Head(wsIn).data
             /\ Tail(notifications') = notifications
             /\ unreadCount' = unreadCount + 1]_vars

\* C15's case: after a count override, a notification event was applied to a
\* list that already held an item.
C15_Witness ==
  /\ last.op = "message"
  /\ last.emitted = <<"notification">>
  /\ ~last.plain
  /\ Len(notifications) >= 2
  /\ unreadCount = last.pre.unreadCount + 1
  /\ unreadCount # UnreadItems(notifications)

\* C15's other case: an unread_count event changed the count.
C15_WitnessOverride ==
  /\ last.op = "message"
  /\ last.emitted = <<"unread_count">>
  /\ unreadCount # last.pre.unreadCount

\* =========================================================== the dispatcher's claims

RECURSIVE ListenersOf(_)
ListenersOf(events) ==
  IF events = <<>> THEN <<>> ELSE listeners[Head(events)] \o ListenersOf(Tail(events))

\* C16: a listener that throws does not stop the others: a step that emits
\* events invokes every listener registered for them, once each and in order,
\* no exception leaves emit, and a message leaves the transport's state as
\* it was.
C16_ThrowingListenerIsolated ==
  [][/\ last'.invoked = ListenersOf(last'.emitted)
     /\ ~last'.uncaught
     /\ last'.op = "message" => UNCHANGED tvars]_vars

\* C16's case: the first listener of an event threw and the second one was
\* still invoked.
C16_Witness ==
  /\ Len(last.invoked) = 2
  /\ Throws(last.invoked[1])
  /\ ~Throws(last.invoked[2])
  /\ Len(last.emitted) = 1
  /\ ~last.uncaught

\* =========================================================== the sessions' claims

\* C13: when the provider's effect runs with the user or the token absent,
\* disconnect() has run (no current socket, the one there was is closing, the
\* stored identity and the reconnect timer are cleared), the list is empty,
\* the unread count is 0 and the connected flag is false.
C13_LogoutClearsSession ==
  [][((EffectCleanup \/ EffectBody) /\ (auth.user = NULL \/ auth.token = NULL))
        => /\ ws' = NULL
           /\ ws # NULL => rs'[ws] \in {"CLOSING", "CLOSED"}
           /\ userId' = NULL /\ token' = NULL
           /\ reconnectTimer' = NULL /\ PendingTimers' = {}
           /\ notifications' = <<>>
           /\ unreadCount' = 0
           /\ isConnected' = FALSE]_vars

\* C13's case: logout of a connected session that held notifications.
C13_Witness ==
  /\ last.op = "effect:cleanup"
  /\ auth.user = NULL
  /\ last.pre.state = "connected"
  /\ last.pre.unreadCount > 0
  /\ notifications = <<>> /\ unreadCount = 0 /\ ~isConnected

\* C21: a frame that cannot be decoded invokes no listener and no exception
\* leaves the callback; the transport, the store and the listeners are as
\* before, so the socket still receives and dispatches the frames after it.
C21_UndecodableFrameIgnored ==
  [][\A s \in SocketIds, raw \in UndecodableFrames :
       WsGarbage(s, raw)
         => /\ last'.invoked = <<>>
            /\ ~last'.uncaught
            /\ UNCHANGED <<tvars, svars, listeners>>
            /\ ENABLED WsMessage(s, Frame("notification", [id |-> MaxNotifs, is_read |-> FALSE]))]_vars

\* C21's case: an undecodable frame arrived on the open socket of a session
\* whose store holds a notification.
C21_Witness ==
  /\ last.op = "message"
  /\ last.invoked = <<>>
  /\ last.emitted \in {<<>>, <<"undefined">>}
  /\ IsOpen(ws, rs) /\ last.sock = ws
  /\ listeners["notification"] # <<>>
  /\ notifications # <<>>

\* ------------------------------------------- claims on connect()'s failure
\* C22: a connect() whose WebSocket constructor throws emits one error event
\* (every error listener is invoked once, none of another event), leaves the
\* transport disconnected, creates no socket and schedules no reconnect timer.
C22_ConstructorThrowSurfacesError ==
  [][IsThrowStep(last')
       => /\ last'.invoked = ListenersOf(<<"error">>)
          /\ ~last'.uncaught
          /\ ConnectionState' = "disconnected"
          /\ last'.created = NULL
          /\ PendingTimers' \subseteq PendingTimers]_vars

\* C22's case: the constructor threw in a connect() of the application while
\* an error listener was registered
C22_Witness ==
  /\ last.op = "connect"
  /\ last.emitted = <<"error">>
  /\ last.invoked # <<>>
  /\ last.pre.state = "disconnected"

\* C22's case in the reconnect timer's connect()
C22_WitnessTimer ==
  /\ last.op = "timer"
  /\ last.emitted = <<"error">>
  /\ PendingTimers = {}

\* ------------------------------------------ claims on the lifecycle events
LifecycleEvents == {"connect", "disconnect", "error"}

\* C23: no inbound message invokes a listener of the connect, disconnect or
\* error event, whatever the type field of the frame says.
C23_LifecycleListenersOnlyLocal ==
  [][\A s \in SocketIds, raw \in RawFrames :
       WsMessage(s, raw) /\ raw.type \in LifecycleEvents => last'.invoked = <<>>]_vars

\* ------------------------------------------------ claims on the listener lists
\* C24: an emit invokes every handler registered for the event when the emit
\* starts, once per registration and in registration order, also when a
\* handler calls off() or on() for the event while the emit runs.
C24_EmitInvokesAllRegistered ==
  [][\A s \in SocketIds : WsNotify(s) => last'.invoked = listeners[SelfEvent]]_vars

\* The number of registrations of h in a listener list
Count(h, hs) == Cardinality({i \in DOMAIN hs : hs[i] = h})

\* hs without its element at position i
Without(hs, i) == [j \in 1..(Len(hs) - 1) |-> IF j < i THEN hs[j] ELSE hs[j + 1]]

\* C25: one emit invokes a handler as many times as it is registered; an
\* off(event, handler) removes the earliest registration of the handler and
\* keeps the others in their order, and changes nothing when the handler is
\* not registered for the event.
C25_RegistrationsAreAdditive ==
  [][/\ \A s \in SocketIds :
          WsNotify(s)
            => \A h \in ListenHandlers : Count(h, last'.invoked) = Count(h, listeners[SelfEvent])
     /\ \A e \in ListenEvents, h \in ListenHandlers :
          Off(e, h)
            => /\ \A f \in EventNames \ {e} : listeners'[f] = listeners[f]
               /\ IF Count(h, listeners[e]) = 0
                  THEN listeners'[e] = listeners[e]
                  ELSE \E i \in DOMAIN listeners[e] :
                         /\ listeners[e][i] = h
                         /\ \A j \in 1..(i - 1) : listeners[e][j] # h
                         /\ listeners'[e] = Without(listeners[e], i)]_vars

\* ------------------------------------------------------- claims on refresh
\* The REST calls of an operation that are in flight
InFlight(c, op) == {k \in CallIds : c[k].op = op}

\* C26: refreshNotifications() starts a list fetch and a count fetch that do
\* not depend on each other: when the list fetch fails, the count fetch of
\* the refresh is still made and its answer applied.
C26_RefreshFetchesIndependent ==
  [][/\ refreshNotificationsStart => InFlight(calls', "getAll") # InFlight(calls, "getAll")
     /\ \A k \in CallIds :
          RestFail(k) /\ calls[k].op = "getAll" => InFlight(calls', "getUnreadCount") # {}]_vars

\* An unread_count frame is the next to be delivered
CountFramePending == wsIn # <<>> /\ Head(wsIn).type = "unread_count"

\* The answers of getUnreadCount() that have arrived and are not applied yet
CountAnswers == {k \in CallIds : calls[k].op = "getUnreadCount" /\ calls[k].st = "ok"}

\* C27: an unread_count event and a getUnreadCount() answer each set the
\* unread count to the value they carry, whatever the count was and whatever
\* the other one carries: the one applied last decides.
C27_LastCountWins ==
  [][/\ Delivers({"unread_count"}) => unreadCount' = Head(wsIn).data.count
     /\ \A k \in CallIds :
          RestDone(k) /\ calls[k].op = "getUnreadCount" => unreadCount' = calls[k].data.count]_vars

\* C27's case: the REST answer has been applied and changed the count while
\* an unread_count event with another value is still to be delivered
C27_Witness ==
  /\ last.op = "getUnreadCount:done"
  /\ last.pre.unreadCount # unreadCount
  /\ CountFramePending
  /\ Head(wsIn).data.count # unreadCount

\* C27's case in the other order: the event has been applied, lowering the
\* count, while a REST answer with another value is still to be applied
C27_WitnessPushFirst ==
  /\ last.op = "message"
  /\ last.emitted = <<"unread_count">>
  /\ last.pre.unreadCount > unreadCount
  /\ \E k \in CountAnswers : calls[k].data.count # unreadCount

\* ------------------------------------------------- claims on resynchronisation
InList(n) == \E i \in DOMAIN notifications : notifications[i].id = n

\* C28: when from some point on a connection exists, every notification the
\* server created while there was none is in the client's list at some later
\* moment.
C28_MissedNotificationsAppear ==
  <>[]ConnectionUp => \A n \in NotifIds : [](srv[n] # "none" => <>InList(n))

\* ------------------------------------------- claims on connect after disconnect
\* C29: disconnect() leaves the transport without a socket and with the
\* in-flight guard clear, and a connect(p, c) made after it, before any other
\* connect(), creates a socket for (p, c), whatever the state disconnect()
\* was called in.
C29_ConnectAfterDisconnectConnects ==
  [][/\ Disconnect => ws' = NULL /\ ~isConnecting'
     /\ \A p \in UserIds, c \in Tokens :
          Connect(p, c, FALSE) /\ userId = NULL /\ token = NULL
            => /\ last'.created # NULL
               /\ ws' = last'.created
               /\ userId' = p /\ token' = c]_vars

\* C30: the close event of a socket that is not the one connect() stored
\* last leaves the service's socket, its in-flight guard and, when that
\* socket is open, isConnected() and the socket send() transmits on as they
\* were.
C30_StaleCloseLeavesNewSocket ==
  [][\A s \in SocketIds :
       /\ ws # NULL /\ s # ws
       /\ WsFail(s) \/ \E code \in CleanCodes \cup {AbnormalCode} : WsClose(s, code)
       => /\ ws' = ws
          /\ isConnecting' = isConnecting
          /\ IsOpen(ws, rs) => /\ ConnectionState' = "connected"
                                /\ send(ws', rs', "mark_read") = <<[sock |-> ws, type |-> "mark_read"]>>]_vars

\* ---------------------------------------------- claims on what disconnect() reaches
\* C31: when disconnect() returns, every socket the transport created is
\* closed or closing: none stays connecting or open.
C31_DisconnectReachesEverySocket ==
  [][Disconnect => \A s \in SocketIds : rs'[s] \in {"CLOSED", "CLOSING"}]_vars

\* ------------------------------------------------ claims on the sessions' store
\* No callback is pending: the effect has run for the current user and token,
\* and no socket is waiting for its open or close event
Settled == TaskIdle /\ ~auth.dirty /\ \A s \in SocketIds : rs[s] \in {"OPEN", "CLOSED"}

\* C32: whenever no callback is pending, the store's connected flag is true
\* exactly when the transport holds an open socket.
C32_ConnectedFlagAgrees == Settled => (isConnected <=> IsOpen(ws, rs))

\* C33: a REST completion of a call issued in a session does not change the
\* store after the session has ended: once the effect has run for a logout,
\* the list is empty and the unread count is 0 until the next login.
C33_NoCompletionAfterLogout ==
  (TaskIdle /\ ~auth.dirty /\ ~LoggedIn) => (notifications = <<>> /\ unreadCount = 0)

\* C34: the list never holds two items with the same id.
C34_ListIdsUnique ==
  \A i, j \in DOMAIN notifications : notifications[i].id = notifications[j].id => i = j

\* C35: the store has at most one handler registered per event, the one of
\* the effect run that is mounted; it has none once the effect has run for a
\* logout (or for a token without a user); and an inbound event invokes at
\* most one handler.
C35_OneHandlerPerEvent ==
  /\ \A e \in EventNames :
       /\ Len(listeners[e]) <= 1
       /\ listeners[e] # <<>> => auth.mounted # NULL /\ listeners[e][1] = Handler(e, auth.mounted)
  /\ (TaskIdle /\ ~auth.dirty /\ ~LoggedIn) => listeners = NoListeners
  /\ last.op = "message" => Len(last.invoked) <= 1

\* C35's case: after a login and a change of the user object the effect has
\* run a second time, and a pushed notification invoked the one handler of
\* the second run.
C35_Witness ==
  /\ last.op = "message"
  /\ last.emitted = <<"notification">>
  /\ auth.mounted = 1
  /\ last.invoked = <<Handler("notification", 1)>>
  /\ \A e \in EventNames : listeners[e] = <<Handler(e, 1)>>

====
